---- MODULE Spec2Model ----
(***************************************************************************)
(* Model of the youtubedoro page (src/components/YouTubeRestTimer.tsx):    *)
(* the daily totals store of Page, the two wall-clock countdown engines    *)
(* (LearningCard, PlainRestPanel), the player-driven engine                *)
(* (YouTubeRestPanel) and the RestCard mode switch.                        *)
(*                                                                         *)
(* React state is kept twice: the state variables hold the value after     *)
(* every queued setState, and `rendered` holds the values of the last      *)
(* committed render, which is what the closures of the event handlers      *)
(* read.  A handler run from a click is followed by its render at once     *)
(* (Commit); a timer callback, a player signal and the deferred mount      *)
(* callback only queue updates, and Render commits them later.  The        *)
(* updater handed to setTotalLearnSec / setTotalRestSec is taken to run    *)
(* when the setter is called.                                              *)
(*                                                                         *)
(* JavaScript runs one callback to completion: the mount effect's          *)
(* callback is a microtask, so at most one click handler can run before    *)
(* it and no timer callback or player signal can; the completion branch    *)
(* of a countdown tick is two steps (credit, then notification) that       *)
(* nothing interleaves with.                                               *)
(***************************************************************************)
EXTENDS Integers, Sequences, FiniteSets, TLC

\* ------------------------------------------------------------- bounds
MaxNow == 125000
MaxTotal == 2
MaxCarried == 60

\* ------------------------------------------------------ program constants
SecPerMin == 60
MsPerSec == 1000

Max(a, b) == IF a >= b THEN a ELSE b

\* ------------------------------------------------------------- the state
Cards == {"Learning", "PlainRest"}
Engines == Cards \cup {"YouTube"}

VARIABLES
    now,            \* Date.now(), in ms
    localStorage,   \* window.localStorage, the three keys of the day
    today,          \* Page: "" until the mount effect's callback ran
    totalLearnSec,  \* Page
    totalRestSec,   \* Page
    mode,           \* RestCard: "plain" or "youtube"
    status,         \* countdown engines, by card
    targetSec,
    elapsedSec,
    remainingSec,
    timerRef,       \* the live interval and what its callback captured
    liveTimers,     \* intervals of each card that the browser still fires
    beeps,          \* beepTriple() calls since the card's last start
    ytStatus,       \* YouTubeRestPanel
    videoId,
    durationSec,
    ytRemainingSec,
    errorMsg,
    playerRef,
    tickRef,
    livePolls,      \* poll intervals that the browser still fires
    countedRef,
    player,         \* the embedded player: mounted, ready, duration, position
    rendered,       \* the values of the last committed render
    credits,        \* onAdd calls of each engine since its last start
    last,           \* the handler that ran last
    storageMode,    \* whether localStorage works, is full or is denied
    notifying,      \* the card whose completed tick has yet to notify
    input           \* YouTubeRestPanel: the text field at the last start

pageVars == << localStorage, today, totalLearnSec, totalRestSec >>
totalVars == << localStorage, totalLearnSec, totalRestSec >>
cdVars == << status, targetSec, elapsedSec, remainingSec, timerRef, liveTimers,
             beeps >>
ytVars == << ytStatus, videoId, durationSec, ytRemainingSec, errorMsg,
             playerRef, tickRef, livePolls, countedRef, player >>
vars == << now, localStorage, today, totalLearnSec, totalRestSec, mode,
           status, targetSec, elapsedSec, remainingSec, timerRef, liveTimers,
           beeps, ytStatus, videoId, durationSec, ytRemainingSec, errorMsg,
           playerRef, tickRef, livePolls, countedRef, player, rendered, credits,
           last, storageMode, notifying, input >>

\* --------------------------------------------------------------- strings
\* A stored text is a sequence of decimal digits; a missing item is << >>.
NoItem == << >>

RECURSIVE DigitsOf(_)
DigitsOf(n) == IF n < 10 THEN << n >> ELSE Append(DigitsOf(n \div 10), n % 10)

\* String(n) for a non-negative integer n
String(n) == DigitsOf(n)

RECURSIVE NumberOf(_)
NumberOf(s) == IF Len(s) = 0 THEN 0
               ELSE 10 * NumberOf(SubSeq(s, 1, Len(s) - 1)) + s[Len(s)]

\* Number(v) for a text of decimal digits
Number(v) == NumberOf(v)

\* what window.localStorage does: "ok", "full" (setItem throws) or
\* "denied" (getItem and setItem throw)
StorageModes == {"ok", "full", "denied"}

\* readNumber(key): a missing or empty item reads as 0, and so does a
\* getItem that throws
readNumber(store, key) ==
    LET v == store[key]
    IN  IF storageMode = "denied" THEN 0
        ELSE IF v # NoItem THEN Number(v) ELSE 0

\* the text writeNumber stores: String(Math.max(0, Math.floor(value)))
WrittenText(value) == String(Max(0, value))

\* writeNumber(key, value) on a store; a setItem that throws is ignored
writeNumber(store, key, value) ==
    IF storageMode = "ok" THEN [store EXCEPT ![key] = WrittenText(value)] ELSE store

\* --------------------------------------------------------------- day keys
Day == "d"
learnKey == "learnSec"
restKey == "restSec"
legacyKey == "breakSec"
StoreKeys == {learnKey, restKey, legacyKey}

\* keys that are resolved in every render
keysAlwaysResolved(d) == [learn |-> learnKey, rest |-> restKey, legacyBreak |-> legacyKey]

\* keys of a render whose `today` is d (useMemo): empty until resolved
keys(d) == [learn |-> IF d # "" THEN learnKey ELSE "",
            rest |-> IF d # "" THEN restKey ELSE "",
            legacyBreak |-> IF d # "" THEN legacyKey ELSE ""]

\* a || b of JavaScript on numbers
OrElse(a, b) == IF a # 0 THEN a ELSE b

\* the Rest total the mount effect adopts: readNumber(restKey) || legacy
LoadedRest(store) == OrElse(readNumber(store, restKey), readNumber(store, legacyKey))

\* the mount effect's migration test, on the adopted rest and the legacy value
ShouldMigrate(rest, legacy) == rest = 0 /\ legacy > 0

\* the store after the mount effect's deferred callback
StoreAfterLoad(store) ==
    LET legacy == readNumber(store, legacyKey)
        rest == LoadedRest(store)
    IN  IF ShouldMigrate(rest, legacy) THEN writeNumber(store, restKey, legacy) ELSE store

\* a whole number of seconds, in half seconds
Whole(seconds) == 2 * seconds

\* a clamp that drops the fraction and keeps the sign: Math.trunc(seconds)
DeltaTruncates(halves) == IF halves < 0 THEN -((-halves) \div 2) ELSE halves \div 2

\* a clamp that floors but lets negative numbers through
DeltaFloorOnly(halves) == halves \div 2

\* clamp of addLearn / addRest: Math.max(0, Math.floor(seconds)), the
\* argument given in half seconds
Delta(halves) == Max(0, halves \div 2)

\* ------------------------------------------------------------ the clock
\* wall-clock delays, in ms, between two steps of the program
Delays == {59500, 60500}

\* the clock is sure to be advanced while the shortest delay fits under
\* MaxNow: a time up to ClockReaches is passed in every fair behaviour
ClockReaches == MaxNow - (CHOOSE d \in Delays : \A e \in Delays : d <= e)

\* ---------------------------------------------------------- video inputs
\* a text is a sequence of characters; a hostname is a string
IdChars == {"a", "Q", "4", "_", "-"}
IdLen == 11

\* /^[a-zA-Z0-9_-]{11}$/.test(s)
IsIdShape(s) == Len(s) = IdLen /\ \A i \in 1..Len(s) : s[i] \in IdChars

\* s.trim()
RECURSIVE Trim(_)
Trim(s) == IF Len(s) > 0 /\ s[1] = " " THEN Trim(Tail(s))
           ELSE IF Len(s) > 0 /\ s[Len(s)] = " " THEN Trim(SubSeq(s, 1, Len(s) - 1))
           ELSE s

\* s.includes(sub)
Includes(s, sub) ==
    \E i \in 0..(Len(s) - Len(sub)) : SubSeq(s, i + 1, i + Len(sub)) = sub

ShortHost == "youtu.be"

SampleId == << "a", "Q", "4", "_", "-", "a", "Q", "4", "_", "-", "a" >>
OtherId == << "Q", "Q", "4", "_", "-", "a", "Q", "4", "_", "-", "4" >>
WatchSeg == << "w", "a", "t", "c", "h" >>
EmbedSeg == << "e", "m", "b", "e", "d" >>
ShortsSeg == << "s", "h", "o", "r", "t", "s" >>
NoUrl == [ok |-> FALSE, host |-> "", path |-> << >>, v |-> << >>]

\* the text field: the text as typed and, when the trimmed text parses as an
\* absolute URL (new URL(raw) does not throw), its hostname, its non-empty
\* path segments and its v parameter (<< >> when there is none)
NoInput == [raw |-> << >>, url |-> NoUrl]
NotAUrl == << "n", "o", "t", " ", "a", " ", "u", "r", "l" >>
UrlText == << "h", "t", "t", "p", "s", ":", "/", "/" >>

\* the texts typed while a session is followed
VideoInputs ==
    { [raw |-> SampleId, url |-> NoUrl],
      [raw |-> OtherId, url |-> NoUrl],
      [raw |-> NotAUrl, url |-> NoUrl] }

\* texts that are not URLs: identifiers, padded, too long, with a foreign
\* character, and plain words
BareTexts ==
    { SampleId, << " " >> \o SampleId \o << " ", " " >>, OtherId, NotAUrl,
      Append(SampleId, "a"), << "a", "Q", "4", " ", "-", "a", "Q", "4", "_", "-", "a" >>,
      << >> }

UrlHosts == {"youtu.be", "www.youtube.com", "notyoutu.be.example.org"}

UrlPaths ==
    { << >>, << SampleId >>, << WatchSeg >>, << WatchSeg, SampleId >>,
      << EmbedSeg, SampleId >>, << ShortsSeg, SampleId >>, << EmbedSeg >>,
      << EmbedSeg, WatchSeg, EmbedSeg, SampleId >>,
      << ShortsSeg, OtherId, EmbedSeg, SampleId >>,
      << EmbedSeg, Append(SampleId, "a") >> }

UrlParams == {<< >>, SampleId, OtherId, Append(OtherId, "4")}

\* the texts the resolver is tried on
ResolverInputs ==
    {[raw |-> t, url |-> NoUrl] : t \in BareTexts}
    \cup {[raw |-> UrlText, url |-> [ok |-> TRUE, host |-> h, path |-> q, v |-> v]] :
              h \in UrlHosts, q \in UrlPaths, v \in UrlParams}

NoId == << >>

\* a resolver that knows bare identifiers only
extractBareIdOnly(text) ==
    IF IsIdShape(Trim(text.raw)) THEN Trim(text.raw) ELSE NoId

\* extractYouTubeVideoId(input); NoId stands for null
extractYouTubeVideoId(text) ==
    LET raw == Trim(text.raw)
    IN  IF IsIdShape(raw) THEN raw
        ELSE IF ~text.url.ok THEN NoId
        ELSE IF Includes(text.url.host, ShortHost)
             THEN IF Len(text.url.path) > 0 /\ IsIdShape(text.url.path[1])
                  THEN text.url.path[1] ELSE NoId
        ELSE IF IsIdShape(text.url.v) THEN text.url.v
        ELSE LET parts == text.url.path
                 After(marker) ==
                     IF \E i \in 1..Len(parts) : parts[i] = marker
                     THEN LET i == CHOOSE i \in 1..Len(parts) :
                                       /\ parts[i] = marker
                                       /\ \A j \in 1..(i - 1) : parts[j] # marker
                          IN  IF i < Len(parts) /\ IsIdShape(parts[i + 1])
                              THEN parts[i + 1] ELSE NoId
                     ELSE NoId
             IN  IF After(EmbedSeg) # NoId THEN After(EmbedSeg) ELSE After(ShortsSeg)

NoTimer == [live |-> FALSE, t |-> 0, startTs |-> 0, today |-> ""]
NoPlayer == [mounted |-> FALSE, ready |-> FALSE, duration |-> 0, time |-> 0]

\* texts a store can hold before the page is opened
StoredTexts == {NoItem, String(0), String(7)}

\* initial minutes of the two cards (useState(25), useState(5))
InitialTarget(c) == IF c = "Learning" THEN 25 * SecPerMin ELSE 5 * SecPerMin

\* the deferred mount callback is a microtask: a timer callback, a render or
\* a player signal runs after it, and never inside a completing tick
CallbackMayRun == today # "" /\ notifying = "none"

\* a click can be handled before the mount effect has run, but the render it
\* causes runs the effect and its microtask before anything else
ClickMayRun == notifying = "none" /\ (today # "" \/ last = "mount")

\* the state of a freshly mounted YouTubeRestPanel
\* a clearInterval that ends nothing
ClearForgets(count, held) == count

\* window.clearInterval of clear() and clearTick(): the interval whose handle
\* is held ends, and nothing ends where the handle is null
Cleared(count, held) == IF held THEN count - 1 ELSE count

\* window.setInterval: one more interval fires
Armed(count) == count + 1

YtMounted ==
    /\ ytStatus' = "Idle"
    /\ videoId' = NoId
    /\ durationSec' = 0
    /\ ytRemainingSec' = 0
    /\ errorMsg' = ""
    /\ playerRef' = FALSE
    /\ tickRef' = FALSE
    /\ livePolls' = Cleared(livePolls, tickRef)
    /\ countedRef' = FALSE
    /\ player' = NoPlayer
    /\ input' = NoInput

\* the render that follows a click: every closure sees the new values
Commit ==
    rendered' = [today |-> today', status |-> status', elapsedSec |-> elapsedSec',
                 durationSec |-> durationSec', remainingSec |-> ytRemainingSec']

\* the page as mounted, over a store holding one of the given contents
InitWith(stores) ==
    /\ now = 0
    /\ localStorage \in stores
    /\ today = ""
    /\ totalLearnSec = 0
    /\ totalRestSec = 0
    /\ mode = "plain"
    /\ status = [c \in Cards |-> "Idle"]
    /\ targetSec = [c \in Cards |-> InitialTarget(c)]
    /\ elapsedSec = [c \in Cards |-> 0]
    /\ remainingSec = [c \in Cards |-> 0]
    /\ timerRef = [c \in Cards |-> NoTimer]
    /\ liveTimers = [c \in Cards |-> 0]
    /\ beeps = [c \in Cards |-> 0]
    /\ ytStatus = "Idle"
    /\ videoId = NoId
    /\ durationSec = 0
    /\ ytRemainingSec = 0
    /\ errorMsg = ""
    /\ playerRef = FALSE
    /\ tickRef = FALSE
    /\ livePolls = 0
    /\ countedRef = FALSE
    /\ player = NoPlayer
    /\ rendered = [today |-> "", status |-> [c \in Cards |-> "Idle"],
                   elapsedSec |-> [c \in Cards |-> 0],
                   durationSec |-> 0, remainingSec |-> 0]
    /\ credits = [e \in Engines |-> << >>]
    /\ last = "mount"
    /\ storageMode = "ok"
    /\ notifying = "none"
    /\ input = NoInput

\* ------------------------------------------------------------------ Page
\* the deferred callback of the mount effect
Resolve ==
    /\ today = ""
    /\ today' = Day
    /\ totalLearnSec' = readNumber(localStorage, learnKey)
    /\ totalRestSec' = LoadedRest(localStorage)
    /\ localStorage' = StoreAfterLoad(localStorage)
    /\ last' = "resolve"
    /\ UNCHANGED << now, storageMode, notifying, input,
                    mode, cdVars, ytVars, rendered, credits >>

\* an addLearn whose updater lets a throwing setItem escape
addLearnUnguarded(d, halves) ==
    IF keys(d).learn # "" /\ storageMode # "ok"
    THEN UNCHANGED << totalLearnSec, totalRestSec, localStorage >>
    ELSE /\ totalLearnSec' = totalLearnSec + Delta(halves)
         /\ localStorage' = IF keys(d).learn # ""
                            THEN writeNumber(localStorage, keys(d).learn, totalLearnSec')
                            ELSE localStorage
         /\ UNCHANGED totalRestSec

\* addLearn(seconds) of the render whose today is d, seconds in half seconds
addLearn(d, halves) ==
    /\ totalLearnSec' = totalLearnSec + Delta(halves)
    /\ localStorage' = IF keys(d).learn # ""
                       THEN writeNumber(localStorage, keys(d).learn, totalLearnSec')
                       ELSE localStorage
    /\ UNCHANGED totalRestSec

\* addRest(seconds) of the render whose today is d, seconds in half seconds
addRest(d, halves) ==
    /\ totalRestSec' = totalRestSec + Delta(halves)
    /\ localStorage' = IF keys(d).rest # ""
                       THEN writeNumber(localStorage, keys(d).rest, totalRestSec')
                       ELSE localStorage
    /\ UNCHANGED totalLearnSec

\* the onAddLearn / onAddRest prop of an engine
onAdd(e, d, seconds) ==
    IF e = "Learning" THEN addLearn(d, Whole(seconds)) ELSE addRest(d, Whole(seconds))

\* what a caller can hand to addLearn / addRest, in half seconds: negative,
\* fractional and whole numbers
AddInputs == {-10, -1, 3, 4}

\* the onAdd prop of engine e, as handed out by the render whose today is d,
\* called with any number; the call is logged alone
AddCall(e, d, halves) ==
    /\ CallbackMayRun
    /\ d \in {"", rendered.today}
    /\ (IF e = "Learning" THEN totalLearnSec ELSE totalRestSec) <= MaxTotal
    /\ IF e = "Learning" THEN addLearn(d, halves) ELSE addRest(d, halves)
    /\ credits' = [x \in Engines |->
                       IF x = e THEN << [by |-> "call", sec |-> halves, day |-> d] >>
                       ELSE << >>]
    /\ last' = "add"
    /\ UNCHANGED << now, storageMode, notifying, input,
                    today, mode, cdVars, ytVars,
                    rendered >>

\* localStorage starts or stops throwing (quota reached, access denied)
StorageChanges(m) ==
    /\ m # storageMode
    /\ storageMode' = m
    /\ UNCHANGED << now, notifying, input, pageVars, mode, cdVars, ytVars, rendered,
                    credits, last >>

\* a reset that leaves the legacy key alone
StoreAfterResetNoLegacy(store, d) ==
    LET s1 == IF keys(d).learn # "" THEN writeNumber(store, keys(d).learn, 0) ELSE store
    IN  IF keys(d).rest # "" THEN writeNumber(s1, keys(d).rest, 0) ELSE s1

\* a reset that writes under the keys of the day whether or not they are
\* resolved
StoreAfterResetUnguarded(store, d) ==
    writeNumber(writeNumber(writeNumber(store, learnKey, 0), restKey, 0), legacyKey, 0)

\* the store after resetToday of the render whose today is d
StoreAfterReset(store, d) ==
    LET s1 == IF keys(d).learn # "" THEN writeNumber(store, keys(d).learn, 0) ELSE store
        s2 == IF keys(d).rest # "" THEN writeNumber(s1, keys(d).rest, 0) ELSE s1
    IN  IF keys(d).legacyBreak # "" THEN writeNumber(s2, keys(d).legacyBreak, 0) ELSE s2

\* a reset of the day that also resets the countdowns
ResetTodayAndTimers ==
    /\ ClickMayRun
    /\ totalLearnSec' = 0
    /\ totalRestSec' = 0
    /\ localStorage' = StoreAfterReset(localStorage, rendered.today)
    /\ status' = [c \in Cards |-> "Idle"]
    /\ elapsedSec' = [c \in Cards |-> 0]
    /\ remainingSec' = [c \in Cards |-> 0]
    /\ timerRef' = [c \in Cards |-> NoTimer]
    /\ liveTimers' = [c \in Cards |-> 0]
    /\ last' = "resetToday"
    /\ UNCHANGED << now, storageMode, notifying, input,
                    today, mode, targetSec, beeps, ytVars, credits >>
    /\ Commit

\* resetToday()
ResetToday ==
    /\ ClickMayRun
    /\ totalLearnSec' = 0
    /\ totalRestSec' = 0
    /\ localStorage' = StoreAfterReset(localStorage, rendered.today)
    /\ last' = "resetToday"
    /\ UNCHANGED << now, storageMode, notifying, input,
                    today, mode, cdVars, ytVars, credits >>
    /\ Commit

\* a render that commits the updates queued by callbacks
Render ==
    /\ CallbackMayRun
    /\ rendered # [today |-> today, status |-> status, elapsedSec |-> elapsedSec,
                   durationSec |-> durationSec, remainingSec |-> ytRemainingSec]
    /\ rendered' = [today |-> today, status |-> status, elapsedSec |-> elapsedSec,
                    durationSec |-> durationSec, remainingSec |-> ytRemainingSec]
    /\ UNCHANGED << now, storageMode, notifying, input,
                    pageVars, mode, cdVars, ytVars, credits, last >>

Advance ==
    /\ CallbackMayRun
    /\ \E d \in Delays : now + d <= MaxNow /\ now' = now + d
    /\ UNCHANGED << pageVars, mode, cdVars, ytVars, rendered, credits, last,
                    storageMode, notifying, input >>

\* ------------------------------------------------- the countdown engines
\* the minutes field, in half minutes (the field accepts fractions)
MinuteInputs == {-2, 0, 2, 3, 4}

\* whole minutes without the minimum of one
FloorMinutes(halves) == halves \div 2

\* Math.max(1, Math.floor(minutes)), minutes given in half minutes
ClampMinutes(halves) == Max(1, halves \div 2)

\* a target that start() does not take from the minutes field
TargetFromDefault(halves) == InitialTarget("Learning")

\* t = m * 60
TargetOf(halves) == ClampMinutes(halves) * SecPerMin

\* el = Math.floor((Date.now() - startTs) / 1000)
ElapsedAt(clock, startTs) == (clock - startTs) \div MsPerSec

\* a remaining time that is not clamped at zero
RemainingUnclamped(t, el) == t - el

\* rem = Math.max(0, t - el)
RemainingAt(t, el) == Max(0, t - el)

\* whether the card c is mounted: PlainRestPanel only in plain mode
Mounted(c) == c = "Learning" \/ mode = "plain"

\* a test for the end of the countdown that never succeeds
NeverReachedZero(rem) == FALSE

\* the interval callback reached zero: rem <= 0
ReachedZero(rem) == rem <= 0

\* a completion that credited the measured elapsed seconds
CreditsElapsed(t, el) == el

\* what the completion branch hands to onAdd: the target t
CompletionCredit(t, el) == t

\* stop()'s guard, on the status its closure holds
StopAllowed(st) == st = "Running"

\* start() of LearningCard / PlainRestPanel with the minutes field at halves
Start(c, halves) ==
    /\ ClickMayRun
    /\ Mounted(c)
    /\ (IF c = "Learning" THEN totalLearnSec ELSE totalRestSec) <= MaxCarried
    /\ LET t == TargetOf(halves)
       IN  /\ targetSec' = [targetSec EXCEPT ![c] = t]
           /\ elapsedSec' = [elapsedSec EXCEPT ![c] = 0]
           /\ remainingSec' = [remainingSec EXCEPT ![c] = t]
           /\ status' = [status EXCEPT ![c] = "Running"]
           /\ timerRef' = [timerRef EXCEPT ![c] =
                  [live |-> TRUE, t |-> t, startTs |-> now, today |-> rendered.today]]
           /\ liveTimers' = [liveTimers EXCEPT ![c] =
                  Armed(Cleared(@, timerRef[c].live))]
    /\ beeps' = [beeps EXCEPT ![c] = 0]
    /\ credits' = [credits EXCEPT ![c] = << >>]
    /\ last' = "start"
    /\ UNCHANGED << now, storageMode, notifying, input,
                    pageVars, mode, ytVars >>
    /\ Commit

\* the interval callback armed by start()
Tick(c) ==
    /\ CallbackMayRun
    /\ liveTimers[c] > 0 /\ timerRef[c].live
    /\ LET t == timerRef[c].t
           el == ElapsedAt(now, timerRef[c].startTs)
           rem == RemainingAt(t, el)
       IN  /\ elapsedSec' = [elapsedSec EXCEPT ![c] = el]
           /\ remainingSec' = [remainingSec EXCEPT ![c] = rem]
           /\ IF ReachedZero(rem)
              THEN /\ timerRef' = [timerRef EXCEPT ![c] = NoTimer]
                   /\ liveTimers' = [liveTimers EXCEPT ![c] =
                          Cleared(@, timerRef[c].live)]
                   /\ status' = [status EXCEPT ![c] = "Done"]
                   /\ onAdd(c, timerRef[c].today, CompletionCredit(t, el))
                   /\ credits' = [credits EXCEPT ![c] =
                          Append(@, [by |-> "tick", sec |-> CompletionCredit(t, el)])]
                   /\ notifying' = c
              ELSE UNCHANGED << timerRef, liveTimers, status, totalVars, credits, notifying >>
    /\ last' = "tick"
    /\ UNCHANGED << now, storageMode, input, today, mode, targetSec, beeps, ytVars,
                    rendered >>

\* the rest of the completion branch: beepTriple() and the Notification
Notify(c) ==
    /\ notifying = c
    /\ notifying' = "none"
    /\ beeps' = [beeps EXCEPT ![c] = @ + 1]
    /\ UNCHANGED << now, storageMode, input, pageVars, mode, status, targetSec,
                    elapsedSec, remainingSec, timerRef, liveTimers, ytVars, rendered, credits,
                    last >>

\* stop() of LearningCard / PlainRestPanel
Stop(c) ==
    /\ ClickMayRun
    /\ Mounted(c)
    /\ IF StopAllowed(rendered.status[c])
       THEN /\ timerRef' = [timerRef EXCEPT ![c] = NoTimer]
            /\ liveTimers' = [liveTimers EXCEPT ![c] = Cleared(@, timerRef[c].live)]
            /\ status' = [status EXCEPT ![c] = "Paused"]
            /\ onAdd(c, rendered.today, rendered.elapsedSec[c])
            /\ credits' = [credits EXCEPT ![c] =
                   Append(@, [by |-> "stop", sec |-> rendered.elapsedSec[c]])]
       ELSE UNCHANGED << timerRef, liveTimers, status, totalVars, credits >>
    /\ last' = "stop"
    /\ UNCHANGED << now, storageMode, notifying, input,
                    today, mode, targetSec, elapsedSec, remainingSec, beeps, ytVars >>
    /\ Commit

\* reset() of PlainRestPanel
Reset ==
    /\ ClickMayRun
    /\ Mounted("PlainRest")
    /\ timerRef' = [timerRef EXCEPT !["PlainRest"] = NoTimer]
    /\ liveTimers' = [liveTimers EXCEPT !["PlainRest"] =
           Cleared(@, timerRef["PlainRest"].live)]
    /\ status' = [status EXCEPT !["PlainRest"] = "Idle"]
    /\ elapsedSec' = [elapsedSec EXCEPT !["PlainRest"] = 0]
    /\ remainingSec' = [remainingSec EXCEPT !["PlainRest"] = 0]
    /\ last' = "reset"
    /\ UNCHANGED << now, storageMode, notifying, input,
                    pageVars, mode, targetSec, beeps, ytVars, credits >>
    /\ Commit

\* ------------------------------------------------------------- RestCard
\* the Segmented control: the panel of the other mode is unmounted (its
\* teardown effect clears its tick, its state is dropped) and the panel of
\* the new mode is mounted with its initial state
SetMode(v) ==
    /\ ClickMayRun
    /\ v # mode
    /\ mode' = v
    /\ timerRef' = [timerRef EXCEPT !["PlainRest"] = NoTimer]
    /\ liveTimers' = [liveTimers EXCEPT !["PlainRest"] =
           Cleared(@, timerRef["PlainRest"].live)]
    /\ status' = [status EXCEPT !["PlainRest"] = "Idle"]
    /\ targetSec' = [targetSec EXCEPT !["PlainRest"] = InitialTarget("PlainRest")]
    /\ elapsedSec' = [elapsedSec EXCEPT !["PlainRest"] = 0]
    /\ remainingSec' = [remainingSec EXCEPT !["PlainRest"] = 0]
    /\ YtMounted
    /\ last' = "setMode"
    /\ UNCHANGED << now, storageMode, notifying, pageVars, beeps, credits >>
    /\ Commit

\* --------------------------------------------------- the embedded player
\* durations a video can have and positions it can be at, in half seconds
\* (the position reported at the end can lie just past the duration)
VideoDurations == {7, 424}
PlayerTimes(d) == {0, d, d + 1} \cup (IF d > 100 THEN {100} ELSE {3})

\* codes onStateChange can carry: unstarted, ended, playing, paused, buffering
StateCodes == {-1, 0, 1, 2, 3}

\* p.getDuration(): 0 until the metadata is loaded
PlayerLoads(d) ==
    /\ CallbackMayRun
    /\ player.mounted /\ player.duration = 0
    /\ player' = [player EXCEPT !.duration = d]
    /\ UNCHANGED << now, storageMode, notifying, input,
                    pageVars, mode, cdVars, ytStatus, videoId, durationSec,
                    ytRemainingSec, errorMsg, playerRef, tickRef, livePolls, countedRef,
                    rendered, credits >>
    /\ last' = "player"

\* p.getCurrentTime() changes: playback or a seek
PlayerMoves(t) ==
    /\ CallbackMayRun
    /\ player.ready /\ t # player.time
    /\ player' = [player EXCEPT !.time = t]
    /\ UNCHANGED << now, storageMode, notifying, input,
                    pageVars, mode, cdVars, ytStatus, videoId, durationSec,
                    ytRemainingSec, errorMsg, playerRef, tickRef, livePolls, countedRef,
                    rendered, credits >>
    /\ last' = "player"

\* ------------------------------------------------ the player-driven engine
InvalidMsg == "URL/ID YouTube tidak valid."
PlaybackMsg == "Video gagal diputar (embed dibatasi / region / jaringan)."

\* Math.floor(d) of tickOnce, d in half seconds
FloorDuration(d) == d \div 2

\* a remaining time that is rounded up
RemainingRoundedUp(d, t) == Max(0, (d - t + 1) \div 2)

\* Math.max(0, Math.floor(d - t)) of tickOnce, d and t in half seconds
RemainingOf(d, t) == Max(0, (d - t) \div 2)

\* tickOnce() with playerRef.current = p
tickOnce(p) ==
    IF p /\ player.duration > 0
    THEN /\ durationSec' = FloorDuration(player.duration)
         /\ ytRemainingSec' = RemainingOf(player.duration, player.time)
    ELSE UNCHANGED << durationSec, ytRemainingSec >>

\* used = Math.max(0, durationSec - remainingSec) of stopRestYoutube
Used(duration, remaining) == Max(0, duration - remaining)

\* an end handler without the fallback to the player's own duration
EndedDurationNoFallback(duration, p, pl) == duration

\* d = durationSec || Math.floor(p?.getDuration?.() ?? 0) of handleEndedCount
EndedDuration(duration, p, pl) ==
    OrElse(duration, IF p THEN FloorDuration(pl.duration) ELSE 0)

\* a latch that is never seen set
NeverCounted(counted) == FALSE

\* the latch test of handleEndedCount and stopRestYoutube
AlreadyCounted(counted) == counted

\* handleEndedCount()
handleEndedCount ==
    IF AlreadyCounted(countedRef)
    THEN UNCHANGED << countedRef, totalVars, credits >>
    ELSE /\ countedRef' = TRUE
         /\ LET d == EndedDuration(rendered.durationSec, playerRef, player)
            IN  IF d > 0
                THEN /\ onAdd("YouTube", rendered.today, d)
                     /\ credits' = [credits EXCEPT !["YouTube"] =
                            Append(@, [by |-> "end", sec |-> d])]
                ELSE UNCHANGED << totalVars, credits >>

\* a startRestYoutube() that clears the latch before it validates the text
StartClearsLatchFirst(text) ==
    /\ ClickMayRun
    /\ mode = "youtube"
    /\ totalRestSec <= MaxTotal
    /\ tickRef' = FALSE
    /\ livePolls' = Cleared(livePolls, tickRef)
    /\ input' = text
    /\ LET id == extractYouTubeVideoId(text)
       IN  IF id = NoId
           THEN /\ ytStatus' = "Error"
                /\ errorMsg' = InvalidMsg
                /\ countedRef' = FALSE
                /\ UNCHANGED << videoId, durationSec, ytRemainingSec, player, credits >>
           ELSE /\ errorMsg' = ""
                /\ countedRef' = FALSE
                /\ videoId' = id
                /\ durationSec' = 0
                /\ ytRemainingSec' = 0
                /\ ytStatus' = "Idle"
                /\ player' = IF id # videoId
                             THEN [mounted |-> TRUE, ready |-> FALSE,
                                   duration |-> 0, time |-> 0]
                             ELSE player
                /\ credits' = [credits EXCEPT !["YouTube"] = << >>]
    /\ last' = "startRestYoutube"
    /\ UNCHANGED << now, storageMode, notifying, pageVars, mode, cdVars, playerRef >>
    /\ Commit

\* a startRestYoutube() that drops the mounted video when the text is invalid
StartInvalidDropsVideo(text) ==
    /\ ClickMayRun
    /\ mode = "youtube"
    /\ totalRestSec <= MaxTotal
    /\ tickRef' = FALSE
    /\ livePolls' = Cleared(livePolls, tickRef)
    /\ input' = text
    /\ LET id == extractYouTubeVideoId(text)
       IN  /\ countedRef' = IF id = NoId THEN countedRef ELSE FALSE
           /\ videoId' = id
           /\ durationSec' = 0
           /\ ytRemainingSec' = 0
           /\ ytStatus' = IF id = NoId THEN "Error" ELSE "Idle"
           /\ errorMsg' = IF id = NoId THEN InvalidMsg ELSE ""
           /\ player' = IF id = NoId THEN NoPlayer
                         ELSE IF id # videoId
                         THEN [mounted |-> TRUE, ready |-> FALSE,
                               duration |-> 0, time |-> 0]
                         ELSE player
           /\ credits' = IF id = NoId THEN credits
                          ELSE [credits EXCEPT !["YouTube"] = << >>]
    /\ last' = "startRestYoutube"
    /\ UNCHANGED << now, storageMode, notifying, pageVars, mode, cdVars, playerRef >>
    /\ Commit

\* startRestYoutube() with the text field at input
StartRestYoutube(text) ==
    /\ ClickMayRun
    /\ mode = "youtube"
    /\ totalRestSec <= MaxTotal
    /\ tickRef' = FALSE
    /\ livePolls' = Cleared(livePolls, tickRef)
    /\ input' = text
    /\ LET id == extractYouTubeVideoId(text)
       IN  IF id = NoId
           THEN /\ ytStatus' = "Error"
                /\ errorMsg' = InvalidMsg
                /\ UNCHANGED << videoId, durationSec, ytRemainingSec, countedRef,
                                player, credits >>
           ELSE /\ errorMsg' = ""
                /\ countedRef' = FALSE
                /\ videoId' = id
                /\ durationSec' = 0
                /\ ytRemainingSec' = 0
                /\ ytStatus' = "Idle"
                /\ player' = IF id # videoId
                             THEN [mounted |-> TRUE, ready |-> FALSE,
                                   duration |-> 0, time |-> 0]
                             ELSE player
                /\ credits' = [credits EXCEPT !["YouTube"] = << >>]
    /\ last' = "startRestYoutube"
    /\ UNCHANGED << now, storageMode, notifying, pageVars, mode, cdVars, playerRef >>
    /\ Commit

\* stopRestYoutube()
StopRestYoutube ==
    /\ ClickMayRun
    /\ mode = "youtube"
    /\ IF ~playerRef
       THEN UNCHANGED << ytVars, totalVars, credits >>
       ELSE /\ IF ~AlreadyCounted(countedRef)
               THEN LET used == Used(rendered.durationSec, rendered.remainingSec)
                    IN  IF used > 0
                        THEN /\ onAdd("YouTube", rendered.today, used)
                             /\ credits' = [credits EXCEPT !["YouTube"] =
                                    Append(@, [by |-> "stop", sec |-> used])]
                        ELSE UNCHANGED << totalVars, credits >>
               ELSE UNCHANGED << totalVars, credits >>
            /\ countedRef' = TRUE
            /\ tickRef' = FALSE
            /\ livePolls' = Cleared(livePolls, tickRef)
            /\ ytStatus' = "Idle"
            /\ videoId' = NoId
            /\ durationSec' = 0
            /\ ytRemainingSec' = 0
            /\ player' = NoPlayer
            /\ UNCHANGED << errorMsg, playerRef >>
    /\ last' = "stopRestYoutube"
    /\ UNCHANGED << now, storageMode, notifying, input,
                    today, mode, cdVars >>
    /\ Commit

\* the signals of the mounted player reach the handlers of the last render
Signalling == mode = "youtube" /\ player.mounted /\ player.ready

OnReady ==
    /\ CallbackMayRun
    /\ mode = "youtube" /\ player.mounted /\ ~player.ready
    /\ player' = [player EXCEPT !.ready = TRUE]
    /\ playerRef' = TRUE
    /\ ytStatus' = "Idle"
    /\ tickOnce(TRUE)
    /\ last' = "onReady"
    /\ UNCHANGED << now, storageMode, notifying, input,
                    pageVars, mode, cdVars, videoId, errorMsg, tickRef, livePolls,
                    countedRef, rendered, credits >>

\* the body of the onPlay handler
onPlay ==
    /\ ytStatus' = "Playing"
    /\ tickOnce(playerRef)
    /\ tickRef' = TRUE
    /\ livePolls' = Armed(Cleared(livePolls, tickRef))
    /\ UNCHANGED << now, storageMode, notifying, input,
                    pageVars, mode, cdVars, videoId,
                    errorMsg, playerRef, countedRef, player, rendered, credits >>

OnPlay ==
    /\ CallbackMayRun
    /\ Signalling
    /\ onPlay
    /\ last' = "onPlay"

\* an onPause that leaves the poll interval running
onPauseKeepsPolling ==
    /\ ytStatus' = "Paused"
    /\ tickOnce(playerRef)
    /\ UNCHANGED << now, storageMode, notifying, input,
                    pageVars, mode, cdVars, videoId, tickRef, livePolls,
                    errorMsg, playerRef, countedRef, player, rendered, credits >>

\* the body of the onPause handler
onPause ==
    /\ ytStatus' = "Paused"
    /\ tickRef' = FALSE
    /\ livePolls' = Cleared(livePolls, tickRef)
    /\ tickOnce(playerRef)
    /\ UNCHANGED << now, storageMode, notifying, input,
                    pageVars, mode, cdVars, videoId,
                    errorMsg, playerRef, countedRef, player, rendered, credits >>

OnPause ==
    /\ CallbackMayRun
    /\ Signalling
    /\ onPause
    /\ last' = "onPause"

\* the body of the onEnd handler
onEnd ==
    /\ ytStatus' = "Ended"
    /\ tickRef' = FALSE
    /\ livePolls' = Cleared(livePolls, tickRef)
    /\ ytRemainingSec' = 0
    /\ handleEndedCount
    /\ UNCHANGED << now, storageMode, notifying, input,
                    today, mode, cdVars, videoId,
                    durationSec, errorMsg, playerRef, player, rendered >>

OnEnd ==
    /\ CallbackMayRun
    /\ Signalling
    /\ onEnd
    /\ last' = "onEnd"

OnError ==
    /\ CallbackMayRun
    /\ mode = "youtube" /\ player.mounted
    /\ ytStatus' = "Error"
    /\ tickRef' = FALSE
    /\ livePolls' = Cleared(livePolls, tickRef)
    /\ errorMsg' = PlaybackMsg
    /\ last' = "onError"
    /\ UNCHANGED << now, storageMode, notifying, input,
                    pageVars, mode, cdVars, videoId, durationSec,
                    ytRemainingSec, playerRef, countedRef, player, rendered, credits >>

\* the body of the onStateChange handler, event.data = code
onStateChange(code) ==
    /\ IF code = 1
       THEN /\ ytStatus' = "Playing"
            /\ tickRef' = TRUE
            /\ livePolls' = Armed(Cleared(livePolls, tickRef))
            /\ UNCHANGED << ytRemainingSec, countedRef, totalVars, credits >>
       ELSE IF code = 2
       THEN /\ ytStatus' = "Paused"
            /\ tickRef' = FALSE
            /\ livePolls' = Cleared(livePolls, tickRef)
            /\ UNCHANGED << ytRemainingSec, countedRef, totalVars, credits >>
       ELSE IF code = 0
       THEN /\ ytStatus' = "Ended"
            /\ tickRef' = FALSE
            /\ livePolls' = Cleared(livePolls, tickRef)
            /\ ytRemainingSec' = 0
            /\ handleEndedCount
       ELSE UNCHANGED << ytStatus, tickRef, livePolls, ytRemainingSec, countedRef, totalVars,
                         credits >>
    /\ UNCHANGED << now, storageMode, notifying, input,
                    today, mode, cdVars, videoId,
                    durationSec, errorMsg, playerRef, player, rendered >>

\* the name under which a state change is recorded as the last handler
StateChangeOf(code) ==
    CASE code = 1 -> "onStateChange(1)"
      [] code = 2 -> "onStateChange(2)"
      [] code = 0 -> "onStateChange(0)"
      [] OTHER -> "onStateChange"

OnStateChange(code) ==
    /\ CallbackMayRun
    /\ Signalling
    /\ onStateChange(code)
    /\ last' = StateChangeOf(code)

\* the interval callback armed by startTick()
PollTick ==
    /\ CallbackMayRun
    /\ livePolls > 0
    /\ tickOnce(playerRef)
    /\ last' = "pollTick"
    /\ UNCHANGED << now, storageMode, notifying, input,
                    pageVars, mode, cdVars, ytStatus, videoId, errorMsg,
                    playerRef, tickRef, livePolls, countedRef, player, rendered, credits >>

\* ------------------------------------------------------- specifications
\* a store left by an earlier version of the page: a legacy value only
LegacyStore == [k \in StoreKeys |-> IF k = legacyKey THEN String(7) ELSE NoItem]
EmptyStore == [k \in StoreKeys |-> NoItem]

Init == InitWith([StoreKeys -> StoredTexts])
InitEngines == InitWith({EmptyStore, LegacyStore})

\* the totals store with the Learning card feeding it
NextStore ==
    \/ Resolve
    \/ ResetToday
    \/ Render
    \/ Advance
    \/ \E m \in MinuteInputs : Start("Learning", m)
    \/ Tick("Learning")
    \/ Notify("Learning")
    \/ Stop("Learning")

SpecStore == Init /\ [][NextStore]_vars

\* the same, where the callback deferred by the mount effect does run: the
\* effect runs once after the first render and defer() queues a microtask
SpecStoreFair == SpecStore /\ WF_vars(Resolve)

\* the totals store called directly
NextAdd ==
    \/ Resolve
    \/ ResetToday
    \/ Render
    \/ \E e \in Cards, d \in {"", Day}, h \in AddInputs : AddCall(e, d, h)

SpecAdd == InitEngines /\ [][NextAdd]_vars

\* the totals store over a localStorage that can fail
NextFaulty ==
    \/ NextAdd
    \/ \E m \in StorageModes : StorageChanges(m)

SpecFaulty == InitEngines /\ [][NextFaulty]_vars

\* the two countdown engines and the mode switch
NextCountdown ==
    \/ Resolve
    \/ ResetToday
    \/ Render
    \/ Advance
    \/ \E c \in Cards, m \in MinuteInputs : Start(c, m)
    \/ \E c \in Cards : Tick(c)
    \/ \E c \in Cards : Notify(c)
    \/ \E c \in Cards : Stop(c)
    \/ Reset
    \/ \E v \in {"plain", "youtube"} : SetMode(v)

SpecCountdown == InitEngines /\ [][NextCountdown]_vars

\* the same, where the browser keeps its promises: the deferred load runs,
\* the clock goes on, an armed interval fires and a completing callback
\* runs to its end
SpecCountdownFair ==
    /\ SpecCountdown
    /\ WF_vars(Resolve)
    /\ WF_vars(Advance)
    /\ \A c \in Cards : WF_vars(Tick(c)) /\ WF_vars(Notify(c))

\* the player-driven engine and the mode switch
NextPlayer ==
    \/ Resolve
    \/ ResetToday
    \/ Render
    \/ \E v \in {"plain", "youtube"} : SetMode(v)
    \/ \E d \in VideoDurations : PlayerLoads(d)
    \/ \E t \in PlayerTimes(player.duration) : PlayerMoves(t)
    \/ \E text \in VideoInputs : StartRestYoutube(text)
    \/ StopRestYoutube
    \/ OnReady
    \/ OnPlay
    \/ OnPause
    \/ OnEnd
    \/ OnError
    \/ \E code \in StateCodes : OnStateChange(code)
    \/ PollTick

SpecPlayer == InitEngines /\ [][NextPlayer]_vars

\* the resolver, tried from the Start rest button on every text
NextResolver ==
    \/ Resolve
    \/ Render
    \/ \E v \in {"plain", "youtube"} : SetMode(v)
    \/ \E text \in ResolverInputs : StartRestYoutube(text)

SpecResolver == InitEngines /\ [][NextResolver]_vars

\* the three engines side by side, each started on one input: the life of
\* their intervals
TickMinutes == {2}
TickDurations == {424}
TickTexts == { [raw |-> SampleId, url |-> NoUrl], [raw |-> NotAUrl, url |-> NoUrl] }

NextTicks ==
    \/ Resolve
    \/ Render
    \/ Advance
    \/ \E v \in {"plain", "youtube"} : SetMode(v)
    \/ \E c \in Cards, m \in TickMinutes : Start(c, m)
    \/ \E c \in Cards : Tick(c)
    \/ \E c \in Cards : Notify(c)
    \/ \E c \in Cards : Stop(c)
    \/ Reset
    \/ \E d \in TickDurations : PlayerLoads(d)
    \/ \E text \in TickTexts : StartRestYoutube(text)
    \/ StopRestYoutube
    \/ OnReady
    \/ OnPlay
    \/ OnPause
    \/ OnEnd
    \/ OnError
    \/ \E code \in StateCodes : OnStateChange(code)
    \/ PollTick

SpecTicks == InitWith({EmptyStore}) /\ [][NextTicks]_vars

\* --------------------------------------------------------------- claims
\* credits of one kind in the log of an engine
CreditsBy(e, kind) == {i \in 1..Len(credits[e]) : credits[e][i].by = kind}

\* a natural-end signal on either channel
EndSignal == OnEnd \/ OnStateChange(0)

\* C1: between one successful start of the player-driven engine and the
\* next, the engine adds to the Rest total at most once, whatever terminal
\* signals (onEnd, onStateChange(0), stop) are delivered and in what order.
C1_AtMostOneCreditPerSession == Len(credits["YouTube"]) <= 1

\* C1 witness: a stop delivered after a natural end that was credited
C1_StopAfterCreditedEnd ==
    /\ last = "stopRestYoutube"
    /\ countedRef
    /\ Len(credits["YouTube"]) = 1
    /\ credits["YouTube"][1].by = "end"

\* C2: a stop of a started session with the latch clear adds exactly
\* max(0, durationSec - remainingSec) as displayed to the Rest total, sets
\* the latch, and a later natural-end signal adds nothing.
C2_StopCreditsWatched ==
    [][/\ (StopRestYoutube /\ videoId # NoId /\ ~countedRef) =>
             /\ totalRestSec' = totalRestSec
                    + Max(0, rendered.durationSec - rendered.remainingSec)
             /\ countedRef'
       /\ (EndSignal /\ countedRef) => totalRestSec' = totalRestSec]_vars

\* C3: a natural-end signal with the latch clear adds exactly the full known
\* duration (durationSec, or the floored getDuration() when durationSec is
\* 0), sets the latch, sets status Ended and remaining 0, and stops polling.
C3_EndCreditsFullDuration ==
    [][(EndSignal /\ ~countedRef) =>
          /\ totalRestSec' = totalRestSec
                 + (IF durationSec # 0 THEN durationSec ELSE player.duration \div 2)
          /\ totalLearnSec' = totalLearnSec
          /\ countedRef'
          /\ ytStatus' = "Ended"
          /\ ytRemainingSec' = 0
          /\ ~tickRef']_vars

\* C3 witness: a natural end credited the whole 212 seconds of the video
C3_EndCredited ==
    /\ last = "onEnd"
    /\ ytStatus = "Ended"
    /\ countedRef
    /\ credits["YouTube"] = << [by |-> "end", sec |-> 212] >>

\* C4: in every state of a countdown engine whose status is Running or
\* Done, elapsedSec + remainingSec = targetSec.
C4_ElapsedPlusRemainingIsTarget ==
    \A c \in Cards :
        status[c] \in {"Running", "Done"} => elapsedSec[c] + remainingSec[c] = targetSec[c]

\* C5: a tick that computes remaining 0 moves the engine to Done, stops the
\* periodic tick, adds exactly the target to the total of its category and
\* fires the completion notification (the next step of the same callback);
\* both happen at most once per session.
C5_CompletionCreditsTargetOnce ==
    /\ [](\A c \in Cards : beeps[c] <= 1 /\ Cardinality(CreditsBy(c, "tick")) <= 1)
    /\ [][\A c \in Cards :
            /\ (Tick(c) /\ remainingSec'[c] = 0) =>
                   /\ status'[c] = "Done"
                   /\ ~timerRef'[c].live
                   /\ notifying' = c
                   /\ IF c = "Learning"
                      THEN /\ totalLearnSec' = totalLearnSec + targetSec[c]
                           /\ totalRestSec' = totalRestSec
                      ELSE /\ totalRestSec' = totalRestSec + targetSec[c]
                           /\ totalLearnSec' = totalLearnSec
            /\ notifying = c => beeps'[c] = beeps[c] + 1]_vars

\* C5 witness: a one-minute Learning session completed by a late tick
C5_DoneByLateTick ==
    /\ last = "tick"
    /\ status["Learning"] = "Done"
    /\ targetSec["Learning"] = 60
    /\ elapsedSec["Learning"] > 60
    /\ beeps["Learning"] = 1
    /\ credits["Learning"] = << [by |-> "tick", sec |-> 60] >>

\* C6: stop() on an engine whose status is Running cancels the tick, sets
\* Paused and adds the measured elapsedSec; on an engine whose status is
\* Idle, Paused or Done it changes nothing.
C6_StopOnlyFromRunning ==
    [][\A c \in Cards :
          Stop(c) =>
             IF status[c] = "Running"
             THEN /\ ~timerRef'[c].live
                  /\ status'[c] = "Paused"
                  /\ (IF c = "Learning" THEN totalLearnSec' - totalLearnSec
                                        ELSE totalRestSec' - totalRestSec)
                         = rendered.elapsedSec[c]
             ELSE UNCHANGED << status, elapsedSec, remainingSec, timerRef, liveTimers,
                               totalLearnSec, totalRestSec, localStorage >>]_vars

\* C7: no session of a countdown engine is credited both by a completion
\* tick and by a stop, in any interleaving of ticks, renders and clicks.
C7_NoSessionCreditedTwice ==
    \A c \in Cards : CreditsBy(c, "tick") = {} \/ CreditsBy(c, "stop") = {}

\* C8: switching the mode of the Rest card leaves the session of either
\* panel as it was: status, target, elapsed, remaining and live tick.
C8_ModeSwitchKeepsSessions ==
    [][(\E v \in {"plain", "youtube"} : SetMode(v)) =>
          UNCHANGED << status, targetSec, elapsedSec, remainingSec, timerRef, liveTimers,
                       ytStatus, videoId, durationSec, ytRemainingSec, tickRef, livePolls,
                       countedRef >>]_vars

\* C9: when the day key is resolved with restSec absent or zero and the
\* legacy breakSec positive, the legacy value becomes the Rest total and is
\* written forward into the restSec key.
C9_LegacyWrittenForward ==
    [][(/\ Resolve
        /\ readNumber(localStorage, restKey) = 0
        /\ readNumber(localStorage, legacyKey) > 0) =>
          /\ totalRestSec' = readNumber(localStorage, legacyKey)
          /\ localStorage'[restKey] = localStorage[legacyKey]]_vars

\* C10: after resetToday in the resolved state both totals and the persisted
\* learnSec, restSec and breakSec are 0, so a later load reads 0 everywhere.
C10_ResetThenLoadReadsZero ==
    [][(ResetToday /\ rendered.today # "") =>
          /\ totalLearnSec' = 0
          /\ totalRestSec' = 0
          /\ \A k \in StoreKeys : localStorage'[k] = << 0 >>
          /\ readNumber(localStorage', learnKey) = 0
          /\ LoadedRest(localStorage') = 0
          /\ StoreAfterLoad(localStorage') = localStorage']_vars

\* C10 witness: the day is zeroed after totals had been loaded and credited
C10_ResetAfterLoad ==
    /\ last = "resetToday"
    /\ rendered.today = Day
    /\ totalLearnSec = 0 /\ totalRestSec = 0
    /\ \A k \in StoreKeys : localStorage[k] = << 0 >>
    /\ \E i \in 1..Len(credits["Learning"]) : credits["Learning"][i].sec > 0

\* C11: an add of any number adds max(0, floor(number)) to the total of its
\* category, so no add decreases a total, and an add of a negative number
\* leaves the total and the persisted value as an add of 0 leaves them.
C11_AddClampsDelta ==
    [][\A e \in Cards, d \in {"", Day}, h \in AddInputs :
          AddCall(e, d, h) =>
             LET total == IF e = "Learning" THEN totalLearnSec ELSE totalRestSec
                 totalAfter == IF e = "Learning" THEN totalLearnSec' ELSE totalRestSec'
                 key == IF e = "Learning" THEN learnKey ELSE restKey
             IN  /\ totalLearnSec' >= totalLearnSec
                 /\ totalRestSec' >= totalRestSec
                 /\ totalAfter = total + (IF h < 0 THEN 0 ELSE h \div 2)
                 /\ h < 0 =>
                       /\ totalAfter = total
                       /\ localStorage' = IF d # ""
                                          THEN [localStorage EXCEPT ![key] = DigitsOf(total)]
                                          ELSE localStorage]_vars

\* C11 witness: an add of -5 seconds on a positive, persisted Learning total
C11_NegativeAddKeptTotal ==
    /\ last = "add"
    /\ credits["Learning"] = << [by |-> "call", sec |-> -10, day |-> Day] >>
    /\ totalLearnSec > 0
    /\ localStorage[learnKey] = DigitsOf(totalLearnSec)

C13_StorageFailureKeepsTotals ==
    [][/\ \A e \in Cards, d \in {"", Day}, h \in AddInputs :
             AddCall(e, d, h) =>
                /\ (IF e = "Learning" THEN totalLearnSec' - totalLearnSec
                                      ELSE totalRestSec' - totalRestSec)
                       = (IF h < 0 THEN 0 ELSE h \div 2)
                /\ (IF e = "Learning" THEN totalRestSec' = totalRestSec
                                      ELSE totalLearnSec' = totalLearnSec)
                /\ storageMode # "ok" => localStorage' = localStorage
       /\ (Resolve /\ storageMode = "denied") =>
             /\ today' = Day
             /\ totalLearnSec' = 0 /\ totalRestSec' = 0
             /\ localStorage' = localStorage
       /\ (ResetToday /\ storageMode # "ok") =>
             /\ totalLearnSec' = 0 /\ totalRestSec' = 0
             /\ localStorage' = localStorage]_vars

\* C13 witness: two seconds added to the Learning total while setItem
\* throws: the total is up, the stored text is not
C13_AddedWhileStorageFull ==
    /\ storageMode = "full"
    /\ last = "add"
    /\ rendered.today = Day
    /\ credits["Learning"] = << [by |-> "call", sec |-> 4, day |-> Day] >>
    /\ totalLearnSec = 2
    /\ localStorage[learnKey] = NoItem

\* C14: a start of the player engine with a text the resolver rejects
\* ("not a url") moves the engine to Error with the validation message, and
\* afterwards no player is mounted (videoId is null), whatever the state
\* before, an earlier session's mounted player included.
C14_InvalidStartMountsNoPlayer ==
    [][StartRestYoutube([raw |-> NotAUrl, url |-> NoUrl]) =>
          /\ ytStatus' = "Error"
          /\ errorMsg' = InvalidMsg
          /\ videoId' = NoId
          /\ ~player'.mounted]_vars

\* C15: a player error moves the engine to Error with the fixed message and
\* halts polling, and once the session has errored with the latch clear no
\* later action of that session (a stop, a late end signal) raises the Rest
\* total.
C15_ErroredSessionNotCredited ==
    [][/\ OnError => (ytStatus' = "Error" /\ errorMsg' = PlaybackMsg /\ ~tickRef')
       /\ (ytStatus = "Error" /\ errorMsg = PlaybackMsg /\ ~countedRef) =>
             totalRestSec' <= totalRestSec]_vars

\* C16: when the completion notification of a countdown is triggered, the
\* session's target has already been credited: a read of the total of the
\* category, in memory and persisted, includes it.
C16_CreditedBeforeNotified ==
    \A c \in Cards :
        notifying = c =>
            LET total == IF c = "Learning" THEN totalLearnSec ELSE totalRestSec
                key == IF c = "Learning" THEN learnKey ELSE restKey
            IN  /\ beeps[c] = 0
                /\ credits[c] # << >>
                /\ credits[c][Len(credits[c])] = [by |-> "tick", sec |-> targetSec[c]]
                /\ total >= targetSec[c]
                /\ localStorage[key] = DigitsOf(total)

\* what the last start got from the resolver: the status is Error exactly
\* when it got null
Resolved == IF ytStatus = "Error" THEN NoId ELSE videoId

\* the identifiers a text carries in one of the four shapes
CarriedIds(text) ==
    LET t == Trim(text.raw)
        u == text.url
    IN  (IF IsIdShape(t) THEN {t} ELSE {})
        \cup (IF u.ok /\ Includes(u.host, ShortHost) /\ Len(u.path) > 0
                  /\ IsIdShape(u.path[1])
               THEN {u.path[1]} ELSE {})
        \cup (IF u.ok /\ IsIdShape(u.v) THEN {u.v} ELSE {})
        \cup {u.path[i + 1] : i \in {j \in 1..(Len(u.path) - 1) :
                                        /\ u.ok
                                        /\ u.path[j] \in {EmbedSeg, ShortsSeg}
                                        /\ IsIdShape(u.path[j + 1])}}

\* the segment after the first occurrence of a marker, when it is an
\* identifier
AfterFirst(path, marker) ==
    LET at == {i \in 1..Len(path) : path[i] = marker}
    IN  IF at = {} THEN NoId
        ELSE LET i == CHOOSE i \in at : \A j \in at : i <= j
             IN  IF i < Len(path) /\ IsIdShape(path[i + 1]) THEN path[i + 1] ELSE NoId

\* C17 as stated: a text carrying one identifier in any of the four shapes
\* (bare, first segment of a short link, v parameter, segment after embed
\* or shorts) resolves to it, every other text resolves to null, and a
\* non-null result has the identifier shape.
C17_EveryShapeResolves ==
    last = "startRestYoutube" =>
        /\ \A id \in CarriedIds(input) : CarriedIds(input) = {id} => Resolved = id
        /\ CarriedIds(input) = {} => Resolved = NoId
        /\ Resolved # NoId => IsIdShape(Resolved)

\* C17 amended: the shapes are tried in order and the first that applies
\* decides: a bare identifier; else, for a host containing youtu.be, the
\* first path segment alone; else the v parameter; else the segment after
\* the first embed, else after the first shorts.  A non-null result has the
\* identifier shape and is carried by the text; a text carrying none
\* resolves to null.
C17_FirstShapeDecides ==
    last = "startRestYoutube" =>
        LET t == Trim(input.raw)
            u == input.url
            short == Includes(u.host, ShortHost)
        IN  /\ Resolved # NoId => IsIdShape(Resolved) /\ Resolved \in CarriedIds(input)
            /\ CarriedIds(input) = {} => Resolved = NoId
            /\ IsIdShape(t) => Resolved = t
            /\ (~IsIdShape(t) /\ ~u.ok) => Resolved = NoId
            /\ (~IsIdShape(t) /\ u.ok /\ short) =>
                  Resolved = (IF Len(u.path) > 0 /\ IsIdShape(u.path[1])
                              THEN u.path[1] ELSE NoId)
            /\ (~IsIdShape(t) /\ u.ok /\ ~short /\ IsIdShape(u.v)) => Resolved = u.v
            /\ (~IsIdShape(t) /\ u.ok /\ ~short /\ ~IsIdShape(u.v)) =>
                  Resolved = (IF AfterFirst(u.path, EmbedSeg) # NoId
                              THEN AfterFirst(u.path, EmbedSeg)
                              ELSE AfterFirst(u.path, ShortsSeg))

\* C17 witness: a shorts URL on www.youtube.com resolved to its identifier
C17_ShortsUrlResolved ==
    /\ last = "startRestYoutube"
    /\ input.url.ok
    /\ input.url.host = "www.youtube.com"
    /\ input.url.v = << >>
    /\ input.url.path = << ShortsSeg, SampleId >>
    /\ ytStatus = "Idle"
    /\ videoId = SampleId

\* C18: once the latch of the player engine is true it stays true under
\* every event of the engine (onReady, onPlay, onPause, onEnd, onError,
\* onStateChange, a poll tick, a stop, a start with an invalid text); only a
\* start whose text resolves to an identifier clears it.  (A mode switch
\* unmounts the engine; the panel mounted next has a latch of its own.)
C18_LatchClearedOnlyByValidStart ==
    [][/\ (countedRef /\ ~(\E v \in {"plain", "youtube"} : SetMode(v))) =>
             \/ countedRef'
             \/ /\ \E text \in VideoInputs : StartRestYoutube(text)
                /\ ytStatus' = "Idle"
                /\ IsIdShape(videoId')
       /\ StartRestYoutube([raw |-> NotAUrl, url |-> NoUrl]) =>
             countedRef' = countedRef]_vars

\* C18 witness: the latch still set after a start with an invalid text
C18_LatchedAfterInvalidStart ==
    /\ last = "startRestYoutube"
    /\ ytStatus = "Error"
    /\ errorMsg = InvalidMsg
    /\ countedRef

\* a signal of the embedded player, on any of its callbacks
PlayerSignal ==
    \/ OnReady \/ OnPlay \/ OnPause \/ OnEnd \/ OnError
    \/ \E code \in StateCodes : OnStateChange(code)

\* the moves of the status the state machine of a session allows
SessionMoves ==
    { << "Idle", "Playing" >>, << "Playing", "Paused" >>, << "Paused", "Playing" >>,
      << "Playing", "Ended" >>, << "Paused", "Ended" >>,
      << "Idle", "Error" >>, << "Playing", "Error" >>, << "Paused", "Error" >> }

\* C19: within a session the status of the player engine moves only along
\* Idle -> Playing, Playing <-> Paused, Playing / Paused -> Ended and
\* Idle / Playing / Paused -> Error; no player signal moves it out of Ended
\* or Error.
C19_StatusFollowsSessionMoves ==
    [][PlayerSignal =>
          \/ ytStatus' = ytStatus
          \/ << ytStatus, ytStatus' >> \in SessionMoves]_vars

\* C20: the two signal channels are aliases: a play, a pause or an end
\* delivered on its own callback (onPlay, onPause, onEnd) leaves the engine
\* (status, duration, remaining, latch, polling, Rest total) in the state
\* that onStateChange with code 1, 2 or 0 leaves it in, and conversely.
C20_ChannelsAreAliases ==
    [][/\ OnPlay => onStateChange(1)
       /\ OnStateChange(1) => onPlay
       /\ OnPause => onStateChange(2)
       /\ OnStateChange(2) => onPause
       /\ OnEnd => onStateChange(0)
       /\ OnStateChange(0) => onEnd]_vars

\* the deliveries of one logical signal, by the names of their handlers
PlayNames == { "onPlay", "onStateChange(1)" }
PauseNames == { "onPause", "onStateChange(2)" }
EndNames == { "onEnd", "onStateChange(0)" }

\* the step delivers again the signal that the last handler delivered, and
\* the player has not moved in between
SecondDelivery ==
    \/ last \in PlayNames /\ (OnPlay \/ OnStateChange(1))
    \/ last \in PauseNames /\ (OnPause \/ OnStateChange(2))
    \/ last \in EndNames /\ (OnEnd \/ OnStateChange(0))

\* C21: a play, a pause or an end delivered a second time, on either
\* channel, with the player where it was, leaves status, duration,
\* remaining, the credit latch and the Rest total as they were and at most
\* one poll interval live.
C21_SecondDeliveryChangesNothing ==
    [][SecondDelivery =>
          /\ UNCHANGED << ytStatus, durationSec, ytRemainingSec, countedRef,
                          totalRestSec >>
          /\ livePolls' <= 1]_vars

\* C22: periodic work ends with the session: an interval of a countdown is
\* live only while that card is Running and the poll interval only while
\* the player engine is Playing, each under the handle the engine holds;
\* so after a pause, a stop, a completion, an error, a reset or a teardown
\* none is left to run.
C22_TicksOnlyWhileActive ==
    /\ \A c \in Cards :
           liveTimers[c] > 0 => status[c] = "Running" /\ timerRef[c].live
    /\ livePolls > 0 => ytStatus = "Playing" /\ tickRef

\* a countdown completed and a playback paused, both having ticked
C22_PausedAndDoneWithoutTicks ==
    /\ last = "onPause"
    /\ ytStatus = "Paused" /\ durationSec > 0 /\ livePolls = 0
    /\ status["Learning"] = "Done" /\ liveTimers["Learning"] = 0

\* C23: an engine has one interval live at most: start() of a countdown and
\* startTick() of the player engine (from onPlay and from onStateChange(1))
\* clear the interval under the handle before they arm the next, however
\* the starts and the play signals follow each other.
C23_OneIntervalPerEngine ==
    /\ \A c \in Cards : liveTimers[c] <= 1
    /\ livePolls <= 1

\* a play signal has armed the poll while the Learning countdown is ticking
C23_PollAndCountdownArmed ==
    /\ last \in PlayNames
    /\ livePolls = 1 /\ tickRef
    /\ liveTimers["Learning"] = 1 /\ elapsedSec["Learning"] > 0

\* C24: a tick of a Running countdown sets elapsed to the whole seconds
\* since the anchor and remaining to max(0, target - elapsed); remaining is
\* never negative and, the clock not running backwards, no tick raises it.
C24_RemainingFallsToZero ==
    [][\A c \in Cards :
          last' = "tick" /\ Tick(c) =>
              /\ elapsedSec'[c] * MsPerSec <= now - timerRef[c].startTs
              /\ now - timerRef[c].startTs < (elapsedSec'[c] + 1) * MsPerSec
              /\ remainingSec'[c] =
                     IF elapsedSec'[c] < targetSec[c]
                     THEN targetSec[c] - elapsedSec'[c] ELSE 0
              /\ remainingSec'[c] >= 0
              /\ remainingSec'[c] <= remainingSec[c]]_vars

\* a two-minute countdown has ticked down to its second minute
C24_TickedPartWay ==
    /\ last = "tick"
    /\ status["Learning"] = "Running" /\ timerRef["Learning"].live
    /\ elapsedSec["Learning"] > 0
    /\ remainingSec["Learning"] > 0
    /\ remainingSec["Learning"] < targetSec["Learning"]

\* the card c comes out of a step as a new session for the minutes field m
NewSession(c, m) ==
    /\ elapsedSec'[c] = 0
    /\ targetSec'[c] = SecPerMin * (IF m >= 2 THEN m \div 2 ELSE 1)
    /\ remainingSec'[c] = targetSec'[c]
    /\ timerRef'[c].live /\ timerRef'[c].startTs = now
    /\ timerRef'[c].t = targetSec'[c]
    /\ status'[c] = "Running"
    /\ UNCHANGED << totalLearnSec, totalRestSec, localStorage >>

\* C25: start() on a Paused or Done countdown resumes nothing: elapsed is 0,
\* target and remaining are max(1, floor(minutes)) * 60 of the minutes
\* field, the anchor is the time of the start, the status is Running, and
\* the totals keep what the earlier session was credited. (Stated as: a
\* step from Paused or Done that is not such a new session is no start.)
C25_StartBeginsNewSession ==
    [][\A c \in Cards, m \in MinuteInputs :
          status[c] \in { "Paused", "Done" } /\ ~NewSession(c, m) => ~Start(c, m)]_vars

\* a Learning countdown started again after a stop that was credited
C25_RestartedAfterCreditedStop ==
    /\ last = "start"
    /\ status["Learning"] = "Running" /\ elapsedSec["Learning"] = 0
    /\ timerRef["Learning"].startTs > 0
    /\ totalLearnSec > 0 /\ totalLearnSec < SecPerMin

\* the total of the category a card feeds
TotalOf(c) == IF c = "Learning" THEN totalLearnSec ELSE totalRestSec

\* C26: resetToday sets the Learning and the Rest total to 0 and touches no
\* engine: status, target, elapsed, remaining and the live interval of
\* every countdown, and the player engine, are as before; a countdown that
\* completes on a zeroed total leaves its whole target in it.
C26_ResetLeavesEngines ==
    [][/\ last' = "resetToday" /\ ResetToday =>
           /\ totalLearnSec' = 0 /\ totalRestSec' = 0
           /\ UNCHANGED << status, targetSec, elapsedSec, remainingSec, timerRef,
                           liveTimers, ytVars >>
       /\ \A c \in Cards :
              status'[c] = "Done" /\ TotalOf(c) = 0 /\ Tick(c) =>
                  TotalOf(c)' = targetSec[c]]_vars

\* the day was reset under a ticking Learning countdown, after a Rest
\* countdown had been credited
C26_ResetWhileRunning ==
    /\ last = "resetToday"
    /\ status["Learning"] = "Running" /\ liveTimers["Learning"] = 1
    /\ elapsedSec["Learning"] > 0
    /\ remainingSec["Learning"] = targetSec["Learning"] - elapsedSec["Learning"]
    /\ totalLearnSec = 0 /\ totalRestSec = 0
    /\ \E i \in DOMAIN credits["PlainRest"] : credits["PlainRest"][i].sec > 0

\* C27: the store starts unresolved, with empty keys, and a step that
\* leaves it unresolved writes nothing to storage; the day key changes once,
\* from empty to the day, which does happen; from then on the day key and
\* the three category keys stay what they are, whatever sessions run.
C27_KeysResolveOnce ==
    /\ today = "" /\ keys(today) = [learn |-> "", rest |-> "", legacyBreak |-> ""]
    /\ [][/\ today' = "" => localStorage' = localStorage
          /\ today' # today => today = "" /\ today' = Day
          /\ today # "" => keys(today') = keys(today)]_vars
    /\ <>[](/\ today = Day
            /\ keys(today) =
                   [learn |-> learnKey, rest |-> restKey, legacyBreak |-> legacyKey])

\* Reset was pressed before the keys were resolved: the stored total stays
C27_ResetBeforeResolved ==
    /\ today = ""
    /\ last = "resetToday"
    /\ totalLearnSec = 0
    /\ localStorage[learnKey] = String(7)

\* C28: a start with a text the resolver rejects changes the status (to
\* Error), the error message and the poll interval (cleared) and nothing
\* else: video ID, duration, remaining, credit latch, player and totals are
\* as before.
C28_InvalidStartChangesStatusOnly ==
    [][\A text \in VideoInputs :
          last' = "startRestYoutube" /\ extractYouTubeVideoId(text) = NoId
                  /\ StartRestYoutube(text) =>
              /\ UNCHANGED << videoId, durationSec, ytRemainingSec, countedRef,
                              totalRestSec, totalLearnSec, localStorage >>
              /\ ytStatus' = "Error"
              /\ errorMsg' = InvalidMsg
              /\ ~tickRef' /\ livePolls' = 0]_vars

\* an invalid text was submitted over a session that had played part of
\* its video: the session's values are all there
C28_InvalidStartOverSession ==
    /\ last = "startRestYoutube"
    /\ input = [raw |-> NotAUrl, url |-> NoUrl]
    /\ ytStatus = "Error" /\ errorMsg = InvalidMsg
    /\ videoId = SampleId
    /\ durationSec > 0 /\ ytRemainingSec > 0 /\ ytRemainingSec < durationSec
    /\ ~countedRef
    /\ livePolls = 0

\* C29: the target of a countdown is a whole number of minutes and at least
\* one minute in every reachable state; a start with the minutes field
\* below one (0, negative) sets it to 60 seconds (no step that leaves
\* another target is such a start).
C29_TargetIsWholeMinutes ==
    /\ [](\A c \in Cards : targetSec[c] >= SecPerMin /\ targetSec[c] % SecPerMin = 0)
    /\ [][\A c \in Cards, m \in MinuteInputs :
             m < 2 /\ targetSec'[c] # SecPerMin => ~Start(c, m)]_vars

\* a countdown started with the smallest target
C29_StartedWithOneMinute ==
    /\ last = "start"
    /\ status["PlainRest"] = "Running"
    /\ targetSec["PlainRest"] = SecPerMin /\ remainingSec["PlainRest"] = SecPerMin
    /\ targetSec["PlainRest"] # InitialTarget("PlainRest")

\* a stored text that is the decimal text of a non-negative integer
IsCounterText(v) ==
    /\ \A i \in DOMAIN v : v[i] \in 0..9
    /\ v = DigitsOf(NumberOf(v))

\* C30: over a store that held nothing or non-negative integers, each total
\* in memory is a non-negative integer and each per-day counter key holds
\* nothing or the text of a non-negative integer, in every reachable state:
\* what is written is String(max(0, floor(value))) of such a total.
C30_CountersAreNaturals ==
    /\ totalLearnSec \in Nat
    /\ totalRestSec \in Nat
    /\ \A k \in StoreKeys : localStorage[k] = NoItem \/ IsCounterText(localStorage[k])
    /\ today # "" /\ last = "add" /\ storageMode = "ok" =>
           \A c \in Cards :
               credits[c] # << >> /\ credits[c][1].day # "" =>
                   localStorage[IF c = "Learning" THEN learnKey ELSE restKey]
                       = WrittenText(TotalOf(c))

\* an add of one second and a half was written: the Rest key holds 1
C30_FractionalAddWritten ==
    /\ last = "add"
    /\ credits["PlainRest"] = << [by |-> "call", sec |-> 3, day |-> Day] >>
    /\ totalRestSec = 1
    /\ localStorage[restKey] = << 1 >>

\* the points at which a session or the store may change a total
CreditingPoint ==
    \/ \E c \in Cards : status[c] = "Running" /\ status'[c] = "Done" /\ Tick(c)
    \/ \E c \in Cards : status[c] = "Running" /\ Stop(c)
    \/ OnEnd
    \/ OnStateChange(0)
    \/ StopRestYoutube
    \/ ResetToday
    \/ Resolve

\* C31: a total changes only at a crediting point: the completing tick of a
\* countdown, a stop of a Running countdown, an end signal of the player, an
\* explicit stop of the player, resetToday and the load that resolves the
\* day key; every other step (starts, other ticks, reset of the Rest
\* countdown, onReady, onPlay, onPause, onError, poll ticks, mode switches)
\* leaves both totals as they are.
C31_TotalsChangeAtCreditingPoints ==
    [][<< totalLearnSec, totalRestSec >>' # << totalLearnSec, totalRestSec >>
          => CreditingPoint]_vars

\* C32: the remaining time of the player engine lies between 0 and the
\* duration in every reachable state, as queued and as rendered (the player
\* never reporting a negative position), so what an explicit stop credits,
\* duration - remaining, is not negative and not more than the duration of
\* the video.
C32_RemainingWithinDuration ==
    /\ [](/\ 0 <= ytRemainingSec /\ ytRemainingSec <= durationSec
          /\ 0 <= rendered.remainingSec
          /\ rendered.remainingSec <= rendered.durationSec)
    /\ [][last' = "stopRestYoutube" /\ StopRestYoutube =>
             /\ totalRestSec' - totalRestSec >= 0
             /\ totalRestSec' - totalRestSec <= rendered.durationSec
             /\ totalRestSec' - totalRestSec <= FloorDuration(player.duration)]_vars

\* a stop in the middle of the long video credited the part played
C32_StopCreditedPart ==
    /\ last = "stopRestYoutube"
    /\ Len(credits["YouTube"]) = 1
    /\ credits["YouTube"][1].by = "stop"
    /\ credits["YouTube"][1].sec > 0
    /\ credits["YouTube"][1].sec < 212
    /\ totalRestSec = credits["YouTube"][1].sec

\* the key under which the total a card feeds is persisted
KeyOf(c) == IF c = "Learning" THEN learnKey ELSE restKey

\* C33: with the day key resolved and storage working, after every add (a
\* completing tick, a crediting stop; the tick callback may come from an
\* earlier render) the persisted value of the category is its total in
\* memory, and after resetToday both persisted values are 0 as both totals
\* are.
C33_PersistedFollowsTotal ==
    [][today # "" /\ storageMode = "ok" =>
          /\ \A c \in Cards :
                 \/ status[c] = "Running" /\ status'[c] = "Done" /\ Tick(c)
                 \/ last' = "stop" /\ StopAllowed(rendered.status[c]) /\ Stop(c)
                 => localStorage'[KeyOf(c)] = String(TotalOf(c)')
          /\ last' = "resetToday" /\ ResetToday =>
                 /\ localStorage'[learnKey] = String(totalLearnSec')
                 /\ localStorage'[restKey] = String(totalRestSec')]_vars

\* the session of card c is Running and its target time is one the clock
\* is sure to pass
RunningToDeadline(c) ==
    /\ status[c] = "Running"
    /\ timerRef[c].live
    /\ timerRef[c].startTs + timerRef[c].t * MsPerSec <= ClockReaches

\* C34: with the clock advancing and the interval firing, a Running
\* countdown does not stay Running: the session leaves Running (or gives
\* way to a newer one), and a countdown leaves Running only as Done by its
\* completing tick, or by a stop, a reset or the teardown of a mode switch.
C34_RunningEnds ==
    /\ \A c \in Cards : []<>(~RunningToDeadline(c))
    /\ [][\A c \in Cards :
             status[c] = "Running" /\ status'[c] # "Running" =>
                 \/ status'[c] = "Done" /\ Tick(c)
                 \/ status'[c] = "Paused" /\ Stop(c)
                 \/ status'[c] = "Idle" /\ Reset
                 \/ status'[c] = "Idle" /\ \E v \in {"plain", "youtube"} : SetMode(v)]_vars

\* a one-minute countdown ran to its end untouched
C34_RanToDone ==
    /\ last = "tick"
    /\ status["PlainRest"] = "Done"
    /\ targetSec["PlainRest"] = SecPerMin
    /\ elapsedSec["PlainRest"] >= SecPerMin /\ remainingSec["PlainRest"] = 0
    /\ credits["PlainRest"] = << [by |-> "tick", sec |-> SecPerMin] >>

====
